---- MODULE Spec2Model ----
(***************************************************************************)
(* Register-level GPIO simulation core of the Arduino simulator            *)
(* (Krishna-cell-12/FOSSEE-OSHW).  The repository holds two versions of    *)
(* the simulator component:                                                *)
(*   "jsx" : src/src/ArduinoSimulator.jsx  (setInterval loop, cpu.data)    *)
(*   "p2"  : src/unnamed/part_002          (requestAnimationFrame loop,    *)
(*           port.setDDR / setPort / setPin, LED listener)                 *)
(* The variable impl says which of the two is mounted.  React state is     *)
(* the state committed by the last render; a closure created by a render   *)
(* (the interval callback, the animation-frame callback, the LED listener) *)
(* keeps the values of the render that created it.                         *)
(***************************************************************************)
EXTENDS Integers, Sequences, FiniteSets, TLC

\* ------------------------------------------------------------- bounds
\* number of pins the pin dropdown is exercised with (taken from PinOrder)
NumPinInputs == 3
\* LEDs / push buttons that can be dropped on the canvas
MaxLeds == 1
MaxButtons == 1
\* the pin numbers the resolvers are queried with: -QueriedBelowZero..MaxQueriedPin
QueriedBelowZero == 2
MaxQueriedPin == 15

\* the order in which pins enter the exercised set: both ports, the defaults first
PinOrder == <<10, 2, 9, 3, 13, 7, 8, 4, 5, 6, 11, 12>>
PinInputs == {PinOrder[i] : i \in 1..(IF NumPinInputs < Len(PinOrder) THEN NumPinInputs ELSE Len(PinOrder))}

VARIABLES
  impl,                  \* which source file is mounted: "jsx" or "p2"
  activeComponents,      \* [led, pushbutton]: how many of each are on the canvas
  isSimulating,          \* React state
  pinConfig,             \* React state [ledPin, buttonPin]
  buttonPressed,         \* React state
  cpuRef,                \* cpuRef.current # null (the port refs go with it)
  regs,                  \* [port -> [ddr, port, pin]], the I/O registers of the CPU
  simulationIntervalRef, \* simulationIntervalRef.current # null: a loop task is scheduled
  tick,                  \* jsx: the values the scheduled interval callback closed over
  ledStates,             \* the level each LED shows: p2 React state ledStates[id], jsx the
                         \* value attribute of the LED's element
  pending,               \* updates of the shown levels not delivered yet: p2 state updates
                         \* queued outside an event handler, jsx setTimeout callbacks
  portConfigRef,         \* p2: portConfigRef.current of the scheduled simulationLoop
  loopCounter,           \* p2: loopCounter of the scheduled simulationLoop
  ledPinListenerRef,     \* p2: the LED listener closure, or NoListener
  lastLedValueRef,       \* p2: "0" (the number), "false" or "true"
  op,                    \* history: the operation performed last
  emitted,               \* history: the LED notifications the last operation pushed to the UI
  pre,                   \* history: what the last operation found (see Snapshot)
  bridge,                \* history: [last, prev] the last notification of an observation
                         \* pass in this session ("none" so far) and in the previous one
  call,                  \* history: the query the last operation answered, [fn, arg, result]
  scheduled              \* the loop callbacks the browser holds: intervals set and not
                         \* cleared, animation frames requested and neither run nor cancelled

vars == <<impl, activeComponents, isSimulating, pinConfig, buttonPressed, cpuRef, regs,
          simulationIntervalRef, tick, ledStates, pending, portConfigRef, loopCounter,
          ledPinListenerRef, lastLedValueRef, op, emitted, pre, bridge, call, scheduled>>

\* ------------------------------------------------------------- registers
Ports == {"B", "C", "D"}
ZeroPort == [ddr |-> 0, port |-> 0, pin |-> 0]
ZeroRegs == [p \in Ports |-> ZeroPort]

\* 1 << bit
Bit(b) == 2^b
TestBit(v, b) == (v \div Bit(b)) % 2 = 1
\* (v | (1 << b)) and (v & ~(1 << b)) stored in a Uint8Array cell
OrBit(v, b) == IF TestBit(v, b) THEN v ELSE (v + Bit(b)) % 256
AndNotBit(v, b) == IF TestBit(v, b) THEN v - Bit(b) ELSE v

\* AVRIOPort.setPin(bit, value): an external level on an input pin; a pin
\* configured as output does not follow it
setPin(r, p, b, value) ==
  IF TestBit(r[p].ddr, b) THEN r
  ELSE [r EXCEPT ![p].pin = IF value THEN OrBit(@, b) ELSE AndNotBit(@, b)]

\* ------------------------------------------------------------- ArduinoSimulator.jsx
NullInfo == [port |-> "null", bit |-> -1]

\* getPinPortAndBit with "pin - 7" for port B
getPinPortAndBit_minus7(pin) ==
  IF pin >= 0 /\ pin <= 7 THEN [port |-> "D", bit |-> pin]
  ELSE IF pin >= 8 /\ pin <= 13 THEN [port |-> "B", bit |-> pin - 7]
  ELSE NullInfo

getPinPortAndBit(pin) ==
  IF pin >= 0 /\ pin <= 7 THEN [port |-> "D", bit |-> pin]
  ELSE IF pin >= 8 /\ pin <= 13 THEN [port |-> "B", bit |-> pin - 8]
  ELSE NullInfo

\* what a render's functions close over
Closure(comps, cfg, pressed) ==
  [hasLED |-> comps.led > 0, hasButton |-> comps.pushbutton > 0,
   ledPin |-> cfg.ledPin, buttonPin |-> cfg.buttonPin, buttonPressed |-> pressed]

NoClosure == Closure([led |-> 0, pushbutton |-> 0], [ledPin |-> 10, buttonPin |-> 2], FALSE)

\* updateLEDState(isOn), called from a function of the render that closed over cl
updateLEDState(cl, isOn) ==
  IF cl.hasLED THEN <<[by |-> "updateLEDState", isOn |-> isOn]>> ELSE <<>>

\* simulateArduinoCode() of the render that closed over cl, on registers r
simulateArduinoCode(cl, r) ==
  LET ledPinInfo == getPinPortAndBit(cl.ledPin)
      buttonPinInfo == getPinPortAndBit(cl.buttonPin)
      lp == ledPinInfo.port
      lb == ledPinInfo.bit
      bp == buttonPinInfo.port
      bb == buttonPinInfo.bit
      skip == [regs |-> r, emitted |-> <<>>]
  IN
  IF ~cl.hasLED /\ ~cl.hasButton THEN skip
  ELSE IF ledPinInfo = NullInfo THEN skip
  ELSE
    LET r1 == [r EXCEPT ![lp].ddr = OrBit(@, lb)]
        r2 == IF cl.hasButton /\ buttonPinInfo # NullInfo
              THEN LET c == [r1 EXCEPT ![bp].ddr = AndNotBit(@, bb)]
                   IN [c EXCEPT ![bp].port = OrBit(@, bb)]
              ELSE r1
    IN
    IF cl.hasLED /\ cl.hasButton /\ buttonPinInfo # NullInfo
    THEN LET buttonIsPressed == cl.buttonPressed
             r3 == setPin(r2, bp, bb, ~buttonIsPressed)
         IN IF buttonIsPressed
            THEN [regs |-> [r3 EXCEPT ![lp].port = OrBit(@, lb)],
                  emitted |-> updateLEDState(cl, TRUE)]
            ELSE [regs |-> [r3 EXCEPT ![lp].port = AndNotBit(@, lb)],
                  emitted |-> updateLEDState(cl, FALSE)]
    ELSE IF cl.hasLED
    THEN [regs |-> [r2 EXCEPT ![lp].port = OrBit(@, lb)],
          emitted |-> updateLEDState(cl, TRUE)]
    ELSE [regs |-> r2, emitted |-> <<>>]

\* resetSimulation() without cpu.data.fill(0)
resetSimulation_noFill(cl, hasCpu, r) ==
  [regs |-> r,
   emitted |-> updateLEDState(cl, FALSE),
   buttonPressed |-> FALSE]

\* resetSimulation() of the render that closed over cl: cpu.data.fill(0), LED off,
\* setButtonPressed(false)
resetSimulation(cl, hasCpu, r) ==
  [regs |-> IF hasCpu THEN ZeroRegs ELSE r,
   emitted |-> updateLEDState(cl, FALSE),
   buttonPressed |-> FALSE]

\* ------------------------------------------------------------- pin selection (both files)
\* Array.from({ length: 12 }, (_, i) => i + 2)
allPins == [i \in 1..12 |-> i + 1]

RECURSIVE filterNot(_, _)
\* allPins.filter(pin => pin !== excluded)
filterNot(s, excluded) ==
  IF s = <<>> THEN <<>>
  ELSE IF Head(s) # excluded THEN <<Head(s)>> \o filterNot(Tail(s), excluded)
  ELSE filterNot(Tail(s), excluded)

\* getAvailablePins filtering the component's own pin instead of the other's
getAvailablePins_ownPin(componentType, cfg) ==
  IF componentType = "led" THEN filterNot(allPins, cfg.ledPin)
  ELSE IF componentType = "pushbutton" THEN filterNot(allPins, cfg.buttonPin)
  ELSE allPins

getAvailablePins(componentType, cfg) ==
  IF componentType = "led" THEN filterNot(allPins, cfg.buttonPin)
  ELSE IF componentType = "pushbutton" THEN filterNot(allPins, cfg.ledPin)
  ELSE allPins

\* <option value={pin}>: the value the select hands to onChange is the decimal text
optionValue(pin) == IF pin >= 10 THEN <<pin \div 10, pin % 10>> ELSE <<pin>>

RECURSIVE parseDigits(_, _)
parseDigits(acc, s) == IF s = <<>> THEN acc ELSE parseDigits(acc * 10 + Head(s), Tail(s))
\* a parseInt that stops after the first digit
parseInt_firstDigit(s) == IF s = <<>> THEN 0 ELSE Head(s)
\* parseInt(newPin)
parseInt(s) == parseDigits(0, s)

Range(s) == {s[i] : i \in DOMAIN s}

\* the pins the dropdown of a selected component offers for a change
Offered(componentType) ==
  {p \in Range(getAvailablePins(componentType, pinConfig)) :
     p # (IF componentType = "led" THEN pinConfig.ledPin ELSE pinConfig.buttonPin)}
\* those of them the simulation is exercised with
Selectable(componentType) == Offered(componentType) \cap PinInputs

ComponentTypes == {"led", "pushbutton"}
MaxOf(componentType) == IF componentType = "led" THEN MaxLeds ELSE MaxButtons

\* ------------------------------------------------------------- part_002 state left alone by jsx
NoConfig == [ledPort |-> "null", ledBit |-> 0, buttonPort |-> "null", buttonBit |-> 0]
NoListener == [set |-> FALSE, ledPort |-> "null", ledBit |-> 0, leds |-> 0]

P2Unchanged == UNCHANGED <<portConfigRef, loopCounter, ledPinListenerRef, lastLedValueRef>>

\* a queued update of the shown LED levels: the setTimeout callback of
\* updateLEDState (jsx), setLedStates(updater) or setButtonPressed(false) (p2)
SetElements(isOn) == [kind |-> "dom", leds |-> 0, value |-> isOn]
AllLeds(leds, isOn) == [kind |-> "all", leds |-> leds, value |-> isOn]
MergeLeds(leds, isOn) == [kind |-> "merge", leds |-> leds, value |-> isOn]
Released == [kind |-> "pressed", leds |-> 0, value |-> FALSE]

\* The queue with u added.  Updates that a later one overwrites whatever they
\* do are dropped (the setTimeout callback and an "all" update ignore the
\* previous levels, a "merge" overwrites every LED an earlier merge of no more
\* LEDs wrote), so the queue stays short; the levels after delivering it are
\* the same.
enqueue(q, u) ==
  LET keep(v) == IF u.kind = "dom" THEN FALSE
                 ELSE IF u.kind = "all" THEN v.kind = "pressed"
                 ELSE IF u.kind = "merge" THEN ~(v.kind = "merge" /\ v.leds <= u.leds)
                 ELSE v.kind # "pressed"
  IN Append(SelectSeq(q, keep), u)

RECURSIVE scheduleAll(_, _)
\* the setTimeout(..., 0) of every updateLEDState call in e, in order
scheduleAll(q, e) ==
  IF e = <<>> THEN q ELSE scheduleAll(enqueue(q, SetElements(Head(e).isOn)), Tail(e))

\* ------------------------------------------------------------- history variables
\* the PORT (output) bit of a digital pin
PortBit(r, pin) ==
  LET i == getPinPortAndBit(pin) IN i # NullInfo /\ TestBit(r[i.port].port, i.bit)
\* the PIN (input) bit of a digital pin
PinBit(r, pin) ==
  LET i == getPinPortAndBit(pin) IN i # NullInfo /\ TestBit(r[i.port].pin, i.bit)
\* the DDR bit of a digital pin
DdrBit(r, pin) ==
  LET i == getPinPortAndBit(pin) IN i # NullInfo /\ TestBit(r[i.port].ddr, i.bit)

\* what an operation finds when it starts
Snapshot ==
  [ledPin |-> pinConfig.ledPin,
   ledHigh |-> PortBit(regs, pinConfig.ledPin),
   dirty |-> regs # ZeroRegs, isSimulating |-> isSimulating]

NoBridge == [last |-> "none", prev |-> "none"]
NoCall == [fn |-> "none", arg |-> <<>>, result |-> <<>>]

\* the session ends: its last pass notification becomes the previous session's
EndSession(b) == [last |-> "none", prev |-> b.last]
\* an observation pass notified isOn
Passed(b, isOn) == [b EXCEPT !.last = IF isOn THEN "on" ELSE "off"]

\* ------------------------------------------------------------- ArduinoSimulator.jsx: operations
\* The Stop handler has returned and the effect on [isSimulating] of the render
\* it caused has not run yet.  React runs that render and its effects before it
\* lets any other event, timer or interval callback in.
EffectPending == impl = "jsx" /\ ~isSimulating /\ simulationIntervalRef

\* handleCanvasDrop: a component of the dragged type is added
handleCanvasDropUpTo_jsx(componentType, most) ==
  /\ impl = "jsx"
  /\ ~EffectPending
  /\ activeComponents[componentType] < most
  /\ activeComponents' = [activeComponents EXCEPT ![componentType] = @ + 1]
  /\ ledStates' = IF componentType = "led" THEN Append(ledStates, FALSE) ELSE ledStates
  /\ op' = "handleCanvasDrop"
  /\ emitted' = <<>>
  /\ pre' = Snapshot
  /\ call' = NoCall
  /\ UNCHANGED <<impl, isSimulating, pinConfig, buttonPressed, cpuRef, regs,
                 simulationIntervalRef, tick, bridge, pending>>
  /\ P2Unchanged
  /\ UNCHANGED scheduled

handleCanvasDrop_jsx(componentType) ==
  handleCanvasDropUpTo_jsx(componentType, MaxOf(componentType))

\* handleButtonPress(pressed): only the React state changes
handleButtonPress_jsx(pressed) ==
  /\ impl = "jsx"
  /\ ~EffectPending
  /\ activeComponents.pushbutton > 0
  /\ buttonPressed' = pressed
  /\ op' = "handleButtonPress"
  /\ emitted' = <<>>
  /\ pre' = Snapshot
  /\ call' = NoCall
  /\ UNCHANGED <<impl, activeComponents, isSimulating, pinConfig, cpuRef, regs,
                 simulationIntervalRef, tick, bridge, ledStates, pending>>
  /\ P2Unchanged
  /\ UNCHANGED scheduled

\* handlePinChange(componentType, newPin): only pinConfig changes
handlePinChange_jsx(componentType, newPin) ==
  /\ impl = "jsx"
  /\ ~EffectPending
  /\ activeComponents[componentType] > 0
  /\ LET pinNumber == parseInt(newPin)
     IN pinConfig' = IF componentType = "led" THEN [pinConfig EXCEPT !.ledPin = pinNumber]
                     ELSE IF componentType = "pushbutton"
                     THEN [pinConfig EXCEPT !.buttonPin = pinNumber]
                     ELSE pinConfig
  /\ op' = "handlePinChange"
  /\ emitted' = <<>>
  /\ pre' = Snapshot
  /\ call' = NoCall
  /\ UNCHANGED <<impl, activeComponents, isSimulating, buttonPressed, cpuRef, regs,
                 simulationIntervalRef, tick, bridge, ledStates, pending>>
  /\ P2Unchanged
  /\ UNCHANGED scheduled

\* the Start/Stop button.  Stop: the handler, setIsSimulating(false) and
\* resetSimulation(), with the interval still scheduled; the effect follows in
\* stopEffect.  Start: setIsSimulating(true) and the effect of the render it
\* causes, initializeCPU() if there is no CPU yet and setInterval
StartStopClick_jsx ==
  /\ impl = "jsx"
  /\ ~EffectPending
  /\ IF isSimulating
     THEN LET cl == Closure(activeComponents, pinConfig, buttonPressed)
              a == resetSimulation(cl, cpuRef, regs)
          IN /\ isSimulating' = FALSE
             /\ simulationIntervalRef' = simulationIntervalRef
             /\ tick' = tick
             /\ regs' = a.regs
             /\ buttonPressed' = a.buttonPressed
             /\ emitted' = a.emitted
             /\ pending' = scheduleAll(pending, a.emitted)
             /\ cpuRef' = cpuRef
             /\ bridge' = EndSession(bridge)
             /\ scheduled' = scheduled
             /\ op' = "stop"
     ELSE /\ isSimulating' = TRUE
          /\ cpuRef' = TRUE
          /\ regs' = IF cpuRef THEN regs ELSE ZeroRegs
          /\ simulationIntervalRef' = TRUE
          /\ tick' = Closure(activeComponents, pinConfig, buttonPressed)
          /\ buttonPressed' = buttonPressed
          /\ emitted' = <<>>
          /\ pending' = pending
          /\ bridge' = bridge
          /\ scheduled' = scheduled + 1
          /\ op' = "start"
  /\ pre' = Snapshot
  /\ call' = NoCall
  /\ UNCHANGED <<impl, activeComponents, pinConfig, ledStates>>
  /\ P2Unchanged

\* the effect on [isSimulating] of the render the Stop handler caused: the
\* cleanup of the running effect (clearInterval), then the stop branch
\* (resetSimulation() again)
stopEffect ==
  /\ EffectPending
  /\ LET cl == Closure(activeComponents, pinConfig, buttonPressed)
         b == resetSimulation(cl, cpuRef, regs)
     IN /\ simulationIntervalRef' = FALSE
        /\ scheduled' = scheduled - 1
        /\ tick' = NoClosure
        /\ regs' = b.regs
        /\ buttonPressed' = b.buttonPressed
        /\ emitted' = b.emitted
        /\ pending' = scheduleAll(pending, b.emitted)
  /\ op' = "stopEffect"
  /\ pre' = Snapshot
  /\ call' = NoCall
  /\ UNCHANGED <<impl, activeComponents, isSimulating, pinConfig, cpuRef, bridge, ledStates>>
  /\ P2Unchanged

\* one run of the setInterval callback: simulateArduinoCode() of the render
\* that started the interval
intervalCallback ==
  /\ impl = "jsx"
  /\ ~EffectPending
  /\ simulationIntervalRef
  /\ LET a == IF cpuRef THEN simulateArduinoCode(tick, regs)
              ELSE [regs |-> regs, emitted |-> <<>>]
     IN /\ regs' = a.regs
        /\ emitted' = a.emitted
        /\ pending' = scheduleAll(pending, a.emitted)
        /\ bridge' = IF a.emitted = <<>> THEN bridge ELSE Passed(bridge, a.emitted[1].isOn)
  /\ op' = "tick"
  /\ pre' = Snapshot
  /\ call' = NoCall
  /\ UNCHANGED <<impl, activeComponents, isSimulating, pinConfig, buttonPressed, cpuRef,
                 simulationIntervalRef, tick, ledStates>>
  /\ P2Unchanged
  /\ UNCHANGED scheduled

\* the setTimeout callback of updateLEDState runs: every LED element on the
\* page gets the value attribute
timeoutCallback ==
  /\ impl = "jsx"
  /\ ~EffectPending
  /\ pending # <<>>
  /\ ledStates' = [i \in 1..activeComponents.led |-> Head(pending).value]
  /\ pending' = Tail(pending)
  /\ op' = "timeout"
  /\ emitted' = <<>>
  /\ pre' = Snapshot
  /\ call' = NoCall
  /\ UNCHANGED <<impl, activeComponents, isSimulating, pinConfig, buttonPressed, cpuRef,
                 regs, simulationIntervalRef, tick, bridge>>
  /\ P2Unchanged
  /\ UNCHANGED scheduled

InitCommon ==
  /\ activeComponents = [led |-> 0, pushbutton |-> 0]
  /\ isSimulating = FALSE
  /\ pinConfig = [ledPin |-> 10, buttonPin |-> 2]
  /\ buttonPressed = FALSE
  /\ cpuRef = FALSE
  /\ regs = ZeroRegs
  /\ simulationIntervalRef = FALSE
  /\ tick = NoClosure
  /\ ledStates = <<>>
  /\ portConfigRef = NoConfig
  /\ loopCounter = 0
  /\ ledPinListenerRef = NoListener
  /\ lastLedValueRef = "0"
  /\ op = "mount"
  /\ emitted = <<>>
  /\ pre = Snapshot
  /\ bridge = NoBridge
  /\ call = NoCall
  /\ scheduled = 0

Init_jsx == impl = "jsx" /\ pending = <<>> /\ InitCommon

Next_jsx ==
  \/ \E t \in ComponentTypes : handleCanvasDrop_jsx(t)
  \/ \E pressed \in BOOLEAN : handleButtonPress_jsx(pressed)
  \/ \E t \in ComponentTypes : \E p \in Selectable(t) : handlePinChange_jsx(t, optionValue(p))
  \/ StartStopClick_jsx
  \/ stopEffect
  \/ intervalCallback
  \/ timeoutCallback

SpecJsx == Init_jsx /\ [][Next_jsx]_vars

\* ------------------------------------------------------------- part_002
\* frames between two evaluations of the LED rule: the code's 1000
\* (loopCounter >= 1000), scaled down; a bound of the model
LoopPeriod == 3

\* AVRIOPort.setDDR(bit, isOutput) and AVRIOPort.setPort(bit, level)
setDDR(r, p, b, isOutput) ==
  [r EXCEPT ![p].ddr = IF isOutput THEN OrBit(@, b) ELSE AndNotBit(@, b)]
setPort(r, p, b, level) ==
  [r EXCEPT ![p].port = IF level THEN OrBit(@, b) ELSE AndNotBit(@, b)]

\* the port and bit positions setupCPURegistersDirectly computes and returns
portConfig(ledPin, buttonPin) ==
  [ledPort |-> IF ledPin >= 8 THEN "B" ELSE "D",
   ledBit |-> IF ledPin >= 8 THEN ledPin - 8 ELSE ledPin,
   buttonPort |-> IF buttonPin >= 8 THEN "B" ELSE "D",
   buttonBit |-> IF buttonPin >= 8 THEN buttonPin - 8 ELSE buttonPin]

\* setupCPURegistersDirectly that also drives the LED pin low
setupCPURegistersDirectly_ledLow(r, ledPin, buttonPin) ==
  LET c == portConfig(ledPin, buttonPin)
      r0 == setPort(r, c.ledPort, c.ledBit, FALSE)
      r1 == setDDR(r0, c.ledPort, c.ledBit, TRUE)
      r2 == setDDR(r1, c.buttonPort, c.buttonBit, FALSE)
      r3 == setPort(r2, c.buttonPort, c.buttonBit, TRUE)
  IN [regs |-> r3, config |-> c]

\* setupCPURegistersDirectly that flips the pull-up bit instead of setting it
setupCPURegistersDirectly_flipPullUp(r, ledPin, buttonPin) ==
  LET c == portConfig(ledPin, buttonPin)
      r1 == setDDR(r, c.ledPort, c.ledBit, TRUE)
      r2 == setDDR(r1, c.buttonPort, c.buttonBit, FALSE)
      r3 == setPort(r2, c.buttonPort, c.buttonBit, ~TestBit(r2[c.buttonPort].port, c.buttonBit))
  IN [regs |-> r3, config |-> c]

\* setupCPURegistersDirectly(cpu, ledPin, buttonPin, portB, portC, portD)
setupCPURegistersDirectly(r, ledPin, buttonPin) ==
  LET c == portConfig(ledPin, buttonPin)
      r1 == setDDR(r, c.ledPort, c.ledBit, TRUE)
      r2 == setDDR(r1, c.buttonPort, c.buttonBit, FALSE)
      r3 == setPort(r2, c.buttonPort, c.buttonBit, TRUE)
  IN [regs |-> r3, config |-> c]

\* getPortForPin(pin) while the port refs are set, and getBitForPin(pin)
getPortForPin(pin) ==
  IF pin >= 0 /\ pin <= 7 THEN "D"
  ELSE IF pin >= 8 /\ pin <= 13 THEN "B"
  ELSE "D"
\* getBitForPin without the "- 8" of port B
getBitForPin_noOffset(pin) ==
  IF pin >= 0 /\ pin <= 13 THEN pin ELSE 0
getBitForPin(pin) ==
  IF pin >= 0 /\ pin <= 7 THEN pin
  ELSE IF pin >= 8 /\ pin <= 13 THEN pin - 8
  ELSE 0

\* the state as one record, so that the functions of the component compose
State ==
  [activeComponents |-> activeComponents, isSimulating |-> isSimulating,
   pinConfig |-> pinConfig, buttonPressed |-> buttonPressed, cpuRef |-> cpuRef,
   regs |-> regs, simulationIntervalRef |-> simulationIntervalRef,
   ledStates |-> ledStates, pending |-> pending, portConfigRef |-> portConfigRef,
   loopCounter |-> loopCounter, ledPinListenerRef |-> ledPinListenerRef,
   lastLedValueRef |-> lastLedValueRef, emitted |-> <<>>, bridge |-> bridge,
   scheduled |-> scheduled]

Becomes(s) ==
  /\ activeComponents' = s.activeComponents
  /\ isSimulating' = s.isSimulating
  /\ pinConfig' = s.pinConfig
  /\ buttonPressed' = s.buttonPressed
  /\ cpuRef' = s.cpuRef
  /\ regs' = s.regs
  /\ simulationIntervalRef' = s.simulationIntervalRef
  /\ ledStates' = s.ledStates
  /\ pending' = s.pending
  /\ portConfigRef' = s.portConfigRef
  /\ loopCounter' = s.loopCounter
  /\ ledPinListenerRef' = s.ledPinListenerRef
  /\ lastLedValueRef' = s.lastLedValueRef
  /\ emitted' = s.emitted
  /\ bridge' = s.bridge
  /\ scheduled' = s.scheduled
  /\ pre' = Snapshot
  /\ call' = NoCall
  /\ UNCHANGED <<impl, tick>>

Notify(by, leds, isOn) == IF leds > 0 THEN <<[by |-> by, isOn |-> isOn]>> ELSE <<>>

\* updateAllLEDStates(isOn) without the setLedStates call
updateAllLEDStates_noSet(s, leds, isOn) ==
  [s EXCEPT !.emitted = @ \o Notify("updateAllLEDStates", leds, isOn)]

\* updateAllLEDStates(isOn) of a render with `leds` LEDs among its activeComponents
updateAllLEDStates(s, leds, isOn) ==
  [s EXCEPT !.pending = enqueue(@, AllLeds(leds, isOn)),
            !.emitted = @ \o Notify("updateAllLEDStates", leds, isOn)]

\* the listener setupPortListeners / handlePinChange install for ledPin
Listener(ledPin, leds) ==
  [set |-> TRUE, ledPort |-> getPortForPin(ledPin), ledBit |-> getBitForPin(ledPin),
   leds |-> leds]

LedValue(isHigh) == IF isHigh THEN "true" ELSE "false"

\* ledPinListenerRef.current() without lastLedValueRef.current = isHigh
callListener_forget(s) ==
  LET l == s.ledPinListenerRef
      isHigh == TestBit(s.regs[l.ledPort].port, l.ledBit)
  IN IF ~l.set \/ l.ledPort = "null" THEN s
     ELSE IF s.lastLedValueRef # LedValue(isHigh)
     THEN [s EXCEPT !.pending = enqueue(@, MergeLeds(l.leds, isHigh)),
                    !.emitted = @ \o Notify("listener", l.leds, isHigh),
                    !.bridge = IF l.leds > 0 THEN Passed(@, isHigh) ELSE @]
     ELSE s

\* ledPinListenerRef.current()
callListener(s) ==
  LET l == s.ledPinListenerRef
      isHigh == TestBit(s.regs[l.ledPort].port, l.ledBit)
  IN IF ~l.set \/ l.ledPort = "null" THEN s
     ELSE IF s.lastLedValueRef # LedValue(isHigh)
     THEN [s EXCEPT !.pending = enqueue(@, MergeLeds(l.leds, isHigh)),
                    !.emitted = @ \o Notify("listener", l.leds, isHigh),
                    !.lastLedValueRef = LedValue(isHigh),
                    !.bridge = IF l.leds > 0 THEN Passed(@, isHigh) ELSE @]
     ELSE s

\* stopSimulation() without lastLedValueRef.current = 0
stopSimulation_keepLast(s, leds) ==
  updateAllLEDStates(
    [s EXCEPT !.simulationIntervalRef = FALSE,
              !.scheduled = IF s.simulationIntervalRef THEN @ - 1 ELSE @,
              !.cpuRef = FALSE,
              !.regs = ZeroRegs,
              !.portConfigRef = NoConfig,
              !.loopCounter = 0,
              !.ledPinListenerRef = NoListener,
              !.bridge = IF s.cpuRef THEN EndSession(@) ELSE @],
    leds, FALSE)

\* stopSimulation() without cancelAnimationFrame: the ref is cleared, the
\* requested frame stays
stopSimulation_noCancel(s, leds) ==
  updateAllLEDStates(
    [s EXCEPT !.simulationIntervalRef = FALSE,
              !.cpuRef = FALSE,
              !.regs = ZeroRegs,
              !.portConfigRef = NoConfig,
              !.loopCounter = 0,
              !.ledPinListenerRef = NoListener,
              !.lastLedValueRef = "0",
              !.bridge = IF s.cpuRef THEN EndSession(@) ELSE @],
    leds, FALSE)

\* stopSimulation() of a render with `leds` LEDs among its activeComponents
stopSimulation(s, leds) ==
  updateAllLEDStates(
    [s EXCEPT !.simulationIntervalRef = FALSE,
              !.scheduled = IF s.simulationIntervalRef THEN @ - 1 ELSE @,
              !.cpuRef = FALSE,
              !.regs = ZeroRegs,
              !.portConfigRef = NoConfig,
              !.loopCounter = 0,
              !.ledPinListenerRef = NoListener,
              !.lastLedValueRef = "0",
              !.bridge = IF s.cpuRef THEN EndSession(@) ELSE @],
    leds, FALSE)

\* startSimulation() without the check for the required components
startSimulation_noCheck(s) ==
  LET setup == setupCPURegistersDirectly(ZeroRegs, s.pinConfig.ledPin, s.pinConfig.buttonPin)
  IN [s EXCEPT !.cpuRef = TRUE,
               !.regs = setup.regs,
               !.ledPinListenerRef = Listener(s.pinConfig.ledPin, s.activeComponents.led),
               !.portConfigRef = setup.config,
               !.loopCounter = 0,
               !.simulationIntervalRef = TRUE,
               !.scheduled = @ + 1]

\* startSimulation() of the render whose state is s
startSimulation(s) ==
  LET hasLED == s.activeComponents.led > 0
      hasButton == s.activeComponents.pushbutton > 0
      cancelled == [s EXCEPT !.simulationIntervalRef = FALSE,
                             !.scheduled = IF s.simulationIntervalRef THEN @ - 1 ELSE @,
                             !.portConfigRef = NoConfig, !.loopCounter = 0]
      setup == setupCPURegistersDirectly(ZeroRegs, s.pinConfig.ledPin, s.pinConfig.buttonPin)
  IN IF ~hasLED \/ ~hasButton THEN cancelled
     ELSE [cancelled EXCEPT
             !.cpuRef = TRUE,
             !.regs = setup.regs,
             !.ledPinListenerRef = Listener(s.pinConfig.ledPin, s.activeComponents.led),
             !.portConfigRef = setup.config,
             !.loopCounter = 0,
             !.simulationIntervalRef = TRUE,
             !.scheduled = @ + 1]

\* one queued update applied to the state
applyUpdate(s, u) ==
  IF u.kind = "dom"
  THEN [s EXCEPT !.ledStates = [i \in 1..s.activeComponents.led |-> u.value]]
  ELSE IF u.kind = "all" THEN [s EXCEPT !.ledStates = [i \in 1..u.leds |-> u.value]]
  ELSE IF u.kind = "merge"
  THEN LET n == IF Len(s.ledStates) > u.leds THEN Len(s.ledStates) ELSE u.leds
       IN [s EXCEPT !.ledStates = [i \in 1..n |-> IF i <= u.leds THEN u.value ELSE @[i]]]
  ELSE [s EXCEPT !.buttonPressed = u.value]

RECURSIVE applyPending(_)
\* the render of the queued updates, in the order they were queued
applyPending(s) ==
  IF s.pending = <<>> THEN s
  ELSE applyPending(applyUpdate([s EXCEPT !.pending = Tail(@)], Head(s.pending)))

\* setButtonPressed(false) from an effect: queued unless the state is false already
setButtonPressedFalse(s) ==
  IF s.buttonPressed THEN [s EXCEPT !.pending = enqueue(@, Released)] ELSE s

\* The effects a commit runs, old = the state of the previous render, s = the
\* state of this one.  stopSimulation is a new function in every render
\* (useCallback on updateAllLEDStates, which is not memoized), so the effect on
\* [isSimulating, startSimulation, stopSimulation] runs after every render:
\* first the previous render's cleanup, then the effect on
\* [activeComponents, isSimulating], then the start/stop effect.
runEffects(old, s) ==
  LET cleaned == stopSimulation(s, old.activeComponents.led)
      ledsOff == IF /\ (s.activeComponents # old.activeComponents
                        \/ s.isSimulating # old.isSimulating)
                    /\ ~s.isSimulating
                    /\ s.activeComponents.led > 0
                 THEN updateAllLEDStates(cleaned, s.activeComponents.led, FALSE)
                 ELSE cleaned
  IN IF s.isSimulating THEN startSimulation(ledsOff)
     ELSE setButtonPressedFalse(stopSimulation(ledsOff, s.activeComponents.led))

\* React state of two renders differs
Rerenders(old, s) ==
  \/ s.activeComponents # old.activeComponents
  \/ s.isSimulating # old.isSimulating
  \/ s.pinConfig # old.pinConfig
  \/ s.buttonPressed # old.buttonPressed
  \/ s.ledStates # old.ledStates

\* an event handler has run: the render it causes and that render's effects
commit(old, s) == IF Rerenders(old, s) THEN runEffects(old, s) ELSE s

\* the render of updates queued by effects and by the animation frame
render ==
  /\ impl = "p2"
  /\ pending # <<>>
  /\ Becomes(runEffects(State, applyPending(State)))
  /\ op' = "render"

\* handleStartSimulation: the Start/Stop button
handleStartSimulation ==
  /\ impl = "p2"
  /\ Becomes(commit(State, [State EXCEPT !.isSimulating = ~@]))
  /\ op' = IF isSimulating THEN "stop" ELSE "start"

\* handleButtonPress(pressed)
handleButtonPress_p2(pressed) ==
  /\ impl = "p2"
  /\ activeComponents.pushbutton > 0
  /\ LET btnPin == pinConfig.buttonPin
         btnPort == getPortForPin(btnPin)
         btnBit == getBitForPin(btnPin)
         engine == IF cpuRef
                   THEN [State EXCEPT !.regs = setPin(@, btnPort, btnBit, ~pressed)]
                   ELSE State
     IN Becomes(commit(State, [engine EXCEPT !.buttonPressed = pressed]))
  /\ op' = "handleButtonPress"

\* handlePinChange(componentType, newPin)
handlePinChange_p2(componentType, newPin) ==
  /\ impl = "p2"
  /\ activeComponents[componentType] > 0
  /\ LET pinNumber == parseInt(newPin)
         wasSimulating == isSimulating
         newLedPin == IF componentType = "led" THEN pinNumber ELSE pinConfig.ledPin
         newButtonPin == IF componentType = "pushbutton" THEN pinNumber
                         ELSE pinConfig.buttonPin
         rebound == IF wasSimulating /\ cpuRef
                    THEN [State EXCEPT
                            !.regs = setupCPURegistersDirectly(@, newLedPin, newButtonPin).regs,
                            !.ledPinListenerRef = Listener(newLedPin, activeComponents.led)]
                    ELSE State
         updated == IF componentType = "led"
                    THEN [rebound EXCEPT !.pinConfig.ledPin = pinNumber]
                    ELSE IF componentType = "pushbutton"
                    THEN [rebound EXCEPT !.pinConfig.buttonPin = pinNumber]
                    ELSE rebound
     IN Becomes(commit(State, updated))
  /\ op' = "handlePinChange"

\* handleCanvasDrop: a component of the dragged type is added; a new LED gets
\* ledStates[id] = false
handleCanvasDropUpTo_p2(componentType, most) ==
  /\ impl = "p2"
  /\ activeComponents[componentType] < most
  /\ LET id == activeComponents.led + 1
         added == [State EXCEPT !.activeComponents[componentType] = @ + 1]
         updated == IF componentType = "led"
                    THEN [added EXCEPT !.ledStates =
                            [i \in 1..id |-> IF i < id /\ i <= Len(@) THEN @[i] ELSE FALSE]]
                    ELSE added
     IN Becomes(commit(State, updated))
  /\ op' = "handleCanvasDrop"

handleCanvasDrop_p2(componentType) ==
  handleCanvasDropUpTo_p2(componentType, MaxOf(componentType))

\* one animation frame: simulationLoop(); the frame that ran is requested
\* again at its end unless the CPU is gone
simulationLoop ==
  /\ impl = "p2"
  /\ simulationIntervalRef
  /\ LET config == portConfigRef
         count == loopCounter + 1
         due == count >= LoopPeriod
         buttonState == TestBit(regs[config.buttonPort].pin, config.buttonBit)
         ledState == ~buttonState
         currentLedPortState == TestBit(regs[config.ledPort].port, config.ledBit)
         ruled == IF due /\ config.buttonPort # "null" /\ config.ledPort # "null"
                     /\ ledState # currentLedPortState
                  THEN [State EXCEPT !.regs = setPort(@, config.ledPort, config.ledBit, ledState)]
                  ELSE State
         counted == [ruled EXCEPT !.loopCounter = IF due THEN 0 ELSE count]
     IN IF cpuRef THEN Becomes(callListener(counted))
        ELSE Becomes([State EXCEPT !.scheduled = @ - 1])
  /\ op' = "frame"

\* part_002 after mounting: the first render's start/stop effect has run
\* stopSimulation(), which queued setLedStates
Init_p2 == impl = "p2" /\ pending = <<AllLeds(0, FALSE)>> /\ InitCommon

Next_p2 ==
  \/ \E t \in ComponentTypes : handleCanvasDrop_p2(t)
  \/ \E pressed \in BOOLEAN : handleButtonPress_p2(pressed)
  \/ \E t \in ComponentTypes : \E p \in Selectable(t) : handlePinChange_p2(t, optionValue(p))
  \/ handleStartSimulation
  \/ simulationLoop
  \/ render

SpecP2 == Init_p2 /\ [][Next_p2]_vars

Init == Init_jsx \/ Init_p2
Next == Next_jsx \/ Next_p2
Spec == Init /\ [][Next]_vars

\* ------------------------------------------------------------- several LEDs
\* Sessions with up to MaxLedsShown LEDs on the canvas and the default pins.
MaxLedsShown == 2

MostShown(componentType) == IF componentType = "led" THEN MaxLedsShown ELSE MaxButtons

Next_leds ==
  \/ \E t \in ComponentTypes : handleCanvasDropUpTo_jsx(t, MostShown(t))
  \/ \E pressed \in BOOLEAN : handleButtonPress_jsx(pressed)
  \/ StartStopClick_jsx
  \/ stopEffect
  \/ intervalCallback
  \/ timeoutCallback
  \/ \E t \in ComponentTypes : handleCanvasDropUpTo_p2(t, MostShown(t))
  \/ \E pressed \in BOOLEAN : handleButtonPress_p2(pressed)
  \/ handleStartSimulation
  \/ simulationLoop
  \/ render

SpecLeds == Init /\ [][Next_leds]_vars

\* ------------------------------------------------------------- the pin functions, queried
\* The pin dropdown and the resolvers with every pin, no simulation running.
QueriedPins == (0 - QueriedBelowZero)..MaxQueriedPin

\* a query changes `call` and the history of the last operation, nothing else
Queried(fn, arg, result) ==
  /\ call' = [fn |-> fn, arg |-> arg, result |-> result]
  /\ op' = fn
  /\ emitted' = <<>>
  /\ pre' = Snapshot
  /\ UNCHANGED <<impl, activeComponents, isSimulating, pinConfig, buttonPressed, cpuRef,
                 regs, simulationIntervalRef, tick, bridge, ledStates, pending>>
  /\ P2Unchanged
  /\ UNCHANGED scheduled

\* the render of the properties panel calls getAvailablePins(componentType)
getAvailablePinsQuery(componentType) ==
  Queried("getAvailablePins", <<componentType>>, getAvailablePins(componentType, pinConfig))

\* a pin number resolved by each of the resolvers: getPinPortAndBit,
\* getPortForPin with getBitForPin, and setupCPURegistersDirectly for the LED
\* and for the button
resolveQuery(pin) ==
  LET forLed == portConfig(pin, pinConfig.buttonPin)
      forButton == portConfig(pinConfig.ledPin, pin)
  IN Queried("resolve", <<pin>>,
             [getPinPortAndBit |-> getPinPortAndBit(pin),
              getPortForPin |-> [port |-> getPortForPin(pin), bit |-> getBitForPin(pin)],
              setupLed |-> [port |-> forLed.ledPort, bit |-> forLed.ledBit],
              setupButton |-> [port |-> forButton.buttonPort, bit |-> forButton.buttonBit]])

\* a register bank with every register holding v
Filled(v) == [p \in Ports |-> [ddr |-> v, port |-> v, pin |-> v]]

\* register banks to configure ledPin and buttonPin on: all bits clear or all
\* set, with each DDR and PORT bit of the two pins either way
ConfigureInputs(ledPin, buttonPin) ==
  LET c == portConfig(ledPin, buttonPin)
  IN { setPort(setDDR(setPort(setDDR(Filled(v), c.ledPort, c.ledBit, b[1]),
                              c.ledPort, c.ledBit, b[2]),
                      c.buttonPort, c.buttonBit, b[3]),
               c.buttonPort, c.buttonBit, b[4]) :
         v \in {0, 255}, b \in [1..4 -> BOOLEAN] }

\* the pins are configured on the bank r, and once more on the result:
\* setupCPURegistersDirectly of part_002, and the setup part of
\* simulateArduinoCode of ArduinoSimulator.jsx (all a tick does in a session with
\* a push button and no LED)
configureQuery(ledPin, buttonPin, r) ==
  LET cl == [hasLED |-> FALSE, hasButton |-> TRUE, ledPin |-> ledPin,
             buttonPin |-> buttonPin, buttonPressed |-> FALSE]
      p2 == setupCPURegistersDirectly(r, ledPin, buttonPin).regs
      jsx == simulateArduinoCode(cl, r).regs
  IN Queried("configure", <<ledPin, buttonPin, r>>,
             [p2 |-> [once |-> p2,
                      twice |-> setupCPURegistersDirectly(p2, ledPin, buttonPin).regs],
              jsx |-> [once |-> jsx, twice |-> simulateArduinoCode(cl, jsx).regs]])

Next_configure ==
  \E ledPin \in PinInputs : \E buttonPin \in PinInputs :
    \E r \in ConfigureInputs(ledPin, buttonPin) : configureQuery(ledPin, buttonPin, r)

SpecConfigure == Init /\ [][Next_configure]_vars

\* pin numbers a tick is run with: the exercised pins and the queried pins
\* that are no Uno digital pin
TickPins == PinInputs \cup (QueriedPins \ (0..13))

\* simulateArduinoCode() of a render with an LED and a push button on the
\* canvas and the given pinConfig and buttonPressed, on the bank r
simulateArduinoCodeQuery(ledPin, buttonPin, pressed, r) ==
  LET cl == [hasLED |-> TRUE, hasButton |-> TRUE, ledPin |-> ledPin,
             buttonPin |-> buttonPin, buttonPressed |-> pressed]
  IN Queried("simulateArduinoCode", <<ledPin, buttonPin, pressed, r>>,
             simulateArduinoCode(cl, r))

Next_tick ==
  \E ledPin \in TickPins : \E buttonPin \in TickPins : \E pressed \in BOOLEAN :
    \E r \in {Filled(0), Filled(255)} :
      simulateArduinoCodeQuery(ledPin, buttonPin, pressed, r)

SpecTick == Init /\ [][Next_tick]_vars

Next_pins ==
  \/ \E t \in ComponentTypes : handleCanvasDrop_jsx(t)
  \/ \E t \in ComponentTypes : handleCanvasDrop_p2(t)
  \/ \E t \in ComponentTypes : \E p \in Offered(t) : handlePinChange_jsx(t, optionValue(p))
  \/ \E t \in ComponentTypes : \E p \in Offered(t) : handlePinChange_p2(t, optionValue(p))
  \/ render
  \/ \E t \in ComponentTypes : getAvailablePinsQuery(t)
  \/ \E pin \in QueriedPins : resolveQuery(pin)

SpecPins == Init /\ [][Next_pins]_vars

\* ============================================================= properties
\* the state of the program, without the history variables
programVars == <<impl, activeComponents, isSimulating, pinConfig, buttonPressed, cpuRef,
                 regs, simulationIntervalRef, tick, ledStates, pending, portConfigRef,
                 loopCounter, ledPinListenerRef, lastLedValueRef, scheduled>>

\* a session is active with an LED and a push button on the canvas
ActiveBoth ==
  isSimulating /\ activeComponents.led > 0 /\ activeComponents.pushbutton > 0

\* this step is a tick of the loop that evaluates the LED rule: every interval
\* callback of ArduinoSimulator.jsx, the frame of part_002 in which loopCounter
\* reaches the period
RuleEvaluated == op' = "tick" \/ (op' = "frame" /\ loopCounter' = 0)

\* this step is a tick of the loop
Ticked == op' \in {"tick", "frame"}

\* the last operation pushed an "on" notification
EmittedOn == \E i \in DOMAIN emitted : emitted[i].isOn

RECURSIVE Ascending(_)
\* the elements of a set of numbers in ascending order
Ascending(S) ==
  IF S = {} THEN <<>>
  ELSE LET m == CHOOSE x \in S : \A y \in S : x <= y
       IN <<m>> \o Ascending(S \ {m})

\* C1 (claimed): in an active session with an LED and a button, the tick that
\* follows setButtonPressed(true) leaves the LED pin's PORT bit high and the tick
\* that follows setButtonPressed(false) leaves it low.
C1_CoreRule ==
  [][(op = "handleButtonPress" /\ ActiveBoth /\ RuleEvaluated)
       => (PortBit(regs', pinConfig.ledPin) = buttonPressed)]_vars

\* C2 (claimed): the LED is re-bound from p to q while the session is active, the
\* button is held and the LED is on: after the next tick q's PORT bit is high and
\* p's PORT bit still has its last value (high).
C2_RebindContinuity ==
  [][(/\ op = "handlePinChange" /\ pre.isSimulating /\ pre.ledHigh
      /\ pre.ledPin # pinConfig.ledPin
      /\ buttonPressed /\ ActiveBoth /\ RuleEvaluated)
       => (PortBit(regs', pinConfig.ledPin) /\ PortBit(regs', pre.ledPin))]_vars

\* C3: while no session is active every register of ports B, C and D reads
\* zero: stop() zeroes DDR, PORT and PIN and nothing writes them until the next
\* start.
C3_StopZeroes == ~isSimulating => \A p \in Ports : regs[p] = ZeroPort

\* a stop that found registers set, and the bank of ArduinoSimulator.jsx it zeroed
C3_Witness ==
  op = "stop" /\ pre.isSimulating /\ pre.dirty /\ cpuRef /\ regs = ZeroRegs

\* this tick's observation pass reads the LED output bit high
C4_PassReadsHigh ==
  \/ op' = "tick" /\ tick.hasLED /\ PortBit(regs', tick.ledPin)
  \/ /\ op' = "frame" /\ ledPinListenerRef.set
     /\ TestBit(regs'[ledPinListenerRef.ledPort].port, ledPinListenerRef.ledBit)

\* C4: stop() leaves the last-reported value cleared (lastLedValueRef is 0
\* whenever no session holds a bank), and an observation pass that reads the LED
\* output bit high while no "on" is this session's last report emits "on",
\* whatever the previous session reported last.
C4_FirstOnAfterStop ==
  /\ [](~cpuRef => lastLedValueRef = "0")
  /\ [][(C4_PassReadsHigh /\ bridge.last # "on")
          => (\E i \in DOMAIN emitted' : emitted'[i].isOn)]_vars

\* a session whose first "on" follows a session that ended on "on"
C4_Witness ==
  op \in {"tick", "frame"} /\ EmittedOn
  /\ bridge.prev = "on" /\ bridge.last = "on" /\ pre.ledHigh = FALSE

\* C5 (claimed): in an active session with an LED and no push button every tick
\* leaves the LED pin's PORT bit high.
C5_NoButtonFallback ==
  [][(Ticked /\ isSimulating /\ activeComponents.led > 0
      /\ activeComponents.pushbutton = 0)
       => PortBit(regs', pinConfig.ledPin)]_vars

\* the session was started with the LED or the push button missing
C6_StartedWithoutRole ==
  IF impl = "jsx" THEN ~tick.hasLED \/ ~tick.hasButton
  ELSE activeComponents.led = 0 \/ activeComponents.pushbutton = 0

C7_OtherPin == IF call.arg[1] = "led" THEN pinConfig.buttonPin ELSE pinConfig.ledPin

\* C7: getAvailablePins('led') is 2..13 in ascending order without buttonPin,
\* getAvailablePins('pushbutton') is 2..13 in ascending order without ledPin, and
\* the query changes nothing of the program's state.
C7_AvailablePins ==
  /\ [](call.fn = "getAvailablePins"
          => call.result = Ascending((2..13) \ {C7_OtherPin}))
  /\ [][call'.fn = "getAvailablePins" => UNCHANGED programVars]_vars

\* the LED's list after the button was moved to pin 7
C7_Witness ==
  /\ call.fn = "getAvailablePins" /\ call.arg = <<"led">>
  /\ pinConfig.buttonPin = 7
  /\ call.result = <<2, 3, 4, 5, 6, 8, 9, 10, 11, 12, 13>>

\* C8: starting from ledPin 10 and buttonPin 2, whatever pins are chosen from
\* the dropdown, ledPin and buttonPin differ and both lie in 2..13.
C8_MutualExclusion ==
  /\ pinConfig.ledPin # pinConfig.buttonPin
  /\ pinConfig.ledPin \in 2..13
  /\ pinConfig.buttonPin \in 2..13

\* the two components have swapped their default pins
C8_Witness ==
  op = "handlePinChange" /\ pinConfig = [ledPin |-> 2, buttonPin |-> 10]

\* pins 0..7 are port D bit = pin, pins 8..13 are port B bit = pin - 8
C9_Expected(pin) ==
  IF pin <= 7 THEN [port |-> "D", bit |-> pin] ELSE [port |-> "B", bit |-> pin - 8]

\* C9: for every pin in 0..13 getPinPortAndBit, getPortForPin with getBitForPin
\* and the mapping of setupCPURegistersDirectly all give port D, bit = pin for
\* 0..7 and port B, bit = pin - 8 for 8..13, and resolving changes nothing of
\* the program's state.
C9_ResolverCorrect ==
  /\ [](call.fn = "resolve" /\ call.arg[1] \in 0..13
          => /\ call.result.getPinPortAndBit = C9_Expected(call.arg[1])
             /\ call.result.getPortForPin = C9_Expected(call.arg[1])
             /\ call.result.setupLed = C9_Expected(call.arg[1])
             /\ call.result.setupButton = C9_Expected(call.arg[1]))
  /\ [][call'.fn = "resolve" => UNCHANGED programVars]_vars

\* pin 13 resolved by all of them to port B, bit 5
C9_Witness ==
  /\ call.fn = "resolve" /\ call.arg = <<13>>
  /\ call.result.getPinPortAndBit = [port |-> "B", bit |-> 5]
  /\ call.result.getPortForPin = [port |-> "B", bit |-> 5]
  /\ call.result.setupButton = [port |-> "B", bit |-> 5]

\* the bank was fresh, the pins have been configured and no level has been
\* injected on the button pin: part_002 right after startSimulation, and the
\* first tick of a session of ArduinoSimulator.jsx that has a button and no LED
C10_ConfiguredNoStimulus ==
  \/ impl = "p2" /\ op = "start" /\ cpuRef
  \/ impl = "jsx" /\ op = "tick" /\ ~pre.dirty /\ tick.hasButton /\ ~tick.hasLED

\* C10 (claimed): after configure on a fresh bank and before any stimulus the
\* PIN bit of the button pin reads high.
C10_PullUpDefault ==
  C10_ConfiguredNoStimulus
    => PinBit(regs, IF impl = "jsx" THEN tick.buttonPin ELSE pinConfig.buttonPin)

\* C11 (claimed): within a session no observation pass pushes a notification
\* carrying the level that was last reported; the first pass after start counts
\* the last reported level as off.
C11_OnlyOnChange ==
  [][Ticked => \A i \in DOMAIN emitted' : emitted'[i].isOn # (bridge.last = "on")]_vars

\* the registers r and q agree on every bit that is not a bit of the pins in `pins`
SameExcept(r, q, pins) ==
  \A port \in Ports : \A b \in 0..7 :
    (\A pin \in pins : getPinPortAndBit(pin) # [port |-> port, bit |-> b])
      => /\ TestBit(r[port].ddr, b) = TestBit(q[port].ddr, b)
         /\ TestBit(r[port].port, b) = TestBit(q[port].port, b)
         /\ TestBit(r[port].pin, b) = TestBit(q[port].pin, b)

\* C12 (claimed): a pin change during an active session keeps the register bank
\* and the scheduled loop (the loop's frame count goes on), and every register
\* bit that is not a bit of the newly assigned pins keeps its value.
C12_RebindKeepsSession ==
  [][(op' = "handlePinChange" /\ isSimulating /\ cpuRef /\ simulationIntervalRef)
       => /\ cpuRef' /\ simulationIntervalRef'
          /\ loopCounter' = loopCounter
          /\ SameExcept(regs, regs', {pinConfig'.ledPin, pinConfig'.buttonPin})]_vars

\* the registers r and q agree on every bit but the DDR bits of ledPin and
\* buttonPin and the PORT (pull-up) bit of buttonPin
SameButConfigured(r, q, ledPin, buttonPin) ==
  \A port \in Ports : \A b \in 0..7 :
    LET here(pin) == getPinPortAndBit(pin) = [port |-> port, bit |-> b]
    IN /\ (here(ledPin) \/ here(buttonPin)
            \/ TestBit(r[port].ddr, b) = TestBit(q[port].ddr, b))
       /\ (here(buttonPin) \/ TestBit(r[port].port, b) = TestBit(q[port].port, b))
       /\ TestBit(r[port].pin, b) = TestBit(q[port].pin, b)

\* C13 (claimed): when the start/stop effect runs again in a render of an
\* active session (a start while the session is active), the session keeps its
\* register bank: the registers hold the same values before and after, the
\* configured DDR and pull-up bits apart.
C13_StartWhileActive ==
  [][(op' = "render" /\ isSimulating /\ cpuRef /\ isSimulating')
       => (cpuRef' /\ SameButConfigured(regs, regs', pinConfig'.ledPin, pinConfig'.buttonPin))]_vars

\* C14 (claimed): a pin change while no session is active changes the stored
\* pin assignment and nothing else (no register is written, no notification is
\* pushed), and a start configures the pins assigned at that moment.
C14_IdleRebind ==
  [][/\ (op' = "handlePinChange" /\ ~isSimulating)
         => /\ regs' = regs
            /\ emitted' = <<>>
            /\ UNCHANGED <<activeComponents, isSimulating, buttonPressed, cpuRef,
                           simulationIntervalRef, tick, ledStates, pending, portConfigRef,
                           loopCounter, ledPinListenerRef, lastLedValueRef, scheduled>>
     /\ (op' = "start" /\ impl = "jsx")
         => (tick'.ledPin = pinConfig.ledPin /\ tick'.buttonPin = pinConfig.buttonPin)
     /\ (op' = "start" /\ impl = "p2" /\ cpuRef')
         => regs' = setupCPURegistersDirectly(ZeroRegs, pinConfig.ledPin,
                                              pinConfig.buttonPin).regs]_vars

\* the state once every queued update is delivered: what the page shows when
\* rendering has caught up
Shown == applyPending(State)

\* every LED shows off
AllOff(levels) == \A i \in DOMAIN levels : ~levels[i]

\* C15: stop leaves every LED showing off and buttonPressed false, whatever they
\* were before, and while no session is active every LED shows off (levels as
\* shown once the updates pushed so far are delivered).
C15_StopAllOff ==
  /\ [](~isSimulating => AllOff(Shown.ledStates))
  /\ [][op' = "stop" => (AllOff(Shown.ledStates') /\ ~Shown.buttonPressed')]_vars

\* a stop has just ended a session whose LED pin was high: the LED shows off
C15_Witness ==
  /\ op = "stop" /\ ~isSimulating
  /\ pre.isSimulating /\ pre.ledHigh
  /\ activeComponents.led > 0
  /\ AllOff(Shown.ledStates) /\ ~Shown.buttonPressed

\* C16 (claimed): for every pin outside 0..13 each of the resolvers
\* (getPinPortAndBit, getPortForPin with getBitForPin, the mapping of
\* setupCPURegistersDirectly) answers "unresolved": no port and no bit.
C16_OutOfRangeUnresolved ==
  (call.fn = "resolve" /\ call.arg[1] \notin 0..13)
    => /\ call.result.getPinPortAndBit = NullInfo
       /\ call.result.getPortForPin.port \notin Ports
       /\ call.result.setupLed.port \notin Ports
       /\ call.result.setupButton.port \notin Ports

\* C17: for every pair of pins and every register bank, configuring the pins
\* twice leaves DDR, PORT and PIN of every port as configuring them once does.
C17_ConfigureIdempotent ==
  call.fn = "configure"
    => /\ call.result.p2.twice = call.result.p2.once
       /\ call.result.jsx.twice = call.result.jsx.once

\* pins of different ports configured on a bank that had the LED pin as input
\* and the button pin as output without pull-up: configure changed both
C17_Witness ==
  /\ call.fn = "configure" /\ call.arg[1] = 10 /\ call.arg[2] = 2
  /\ ~DdrBit(call.arg[3], 10) /\ DdrBit(call.arg[3], 2) /\ ~PortBit(call.arg[3], 2)
  /\ DdrBit(call.result.p2.once, 10) /\ ~DdrBit(call.result.p2.once, 2)
  /\ PortBit(call.result.p2.once, 2)
  /\ call.result.jsx.once = call.result.p2.once

\* C18 (claimed): a press or release during an active session leaves the PIN bit
\* of the assigned button pin low when pressed and high when released, and
\* changes no DDR and no PORT register (so the LED's output bit stays).
C18_StimulusFrame ==
  [][(op' = "handleButtonPress" /\ isSimulating /\ cpuRef)
       => /\ PinBit(regs', pinConfig.buttonPin) = ~buttonPressed'
          /\ \A port \in Ports : /\ regs'[port].ddr = regs[port].ddr
                                 /\ regs'[port].port = regs[port].port]_vars

\* C19 (claimed): after every observation pass of an active session the level
\* last reported for each LED is the PORT bit of the LED pin assigned at that
\* moment.
C19_ReportedIsPortBit ==
  [][(Ticked /\ isSimulating /\ cpuRef)
       => \A i \in DOMAIN Shown.ledStates' :
            Shown.ledStates'[i] = PortBit(regs', pinConfig'.ledPin)]_vars

\* C20 (claimed): on stop the recurring tick is cancelled before any register
\* is zeroed: no step of a stop that zeroes the registers leaves the tick
\* scheduled.
C20_CancelBeforeZero ==
  [][(op' \in {"stop", "stopEffect"} /\ cpuRef /\ regs' = ZeroRegs)
       => ~simulationIntervalRef']_vars

\* the Stop click of ArduinoSimulator.jsx is under way: its handler has
\* returned, the effect of the render it caused has not run yet
MidStop == impl = "jsx" /\ op = "stop"

\* C21: after every event at most one loop callback (interval or animation
\* frame) is scheduled, and none while isSimulating is false.
C21_OneLoop ==
  /\ scheduled <= 1
  /\ (~isSimulating /\ ~MidStop) => scheduled = 0

\* a session that has been stopped and started again, with components added, a
\* pin changed and the button used, has its one loop callback scheduled
C21_Witness ==
  /\ isSimulating /\ scheduled = 1 /\ bridge.prev # "none"
  /\ ActiveBoth /\ pinConfig.ledPin # 10 /\ buttonPressed

\* configuring ledPin and buttonPin turned the bank r into q as claimed
ConfiguredFrame(r, q, ledPin, buttonPin) ==
  /\ DdrBit(q, ledPin) /\ ~DdrBit(q, buttonPin) /\ PortBit(q, buttonPin)
  /\ SameButConfigured(r, q, ledPin, buttonPin)

\* C22: configure with two different pins sets the LED pin's DDR bit, clears
\* the button pin's DDR bit and sets the button pin's PORT (pull-up) bit, and
\* leaves every other DDR, PORT and PIN bit of every port as it was.
C22_ConfigureFrame ==
  (call.fn = "configure" /\ call.arg[1] # call.arg[2])
    => /\ ConfiguredFrame(call.arg[3], call.result.p2.once, call.arg[1], call.arg[2])
       /\ ConfiguredFrame(call.arg[3], call.result.jsx.once, call.arg[1], call.arg[2])

\* two pins of port B configured on a bank with every bit set: the LED pin's
\* PORT bit and the bits of the other pins are still set
C22_Witness ==
  /\ call.fn = "configure" /\ call.arg[1] = 9 /\ call.arg[2] = 10
  /\ PortBit(call.arg[3], 9) /\ DdrBit(call.arg[3], 10) /\ PinBit(call.arg[3], 2)
  /\ PortBit(call.result.p2.once, 9) /\ ~DdrBit(call.result.p2.once, 10)
  /\ call.result.p2.once["B"].pin = 255 /\ call.result.jsx.once["D"].ddr = 255

\* C23 (claimed): a tick whose LED pin or button pin does not resolve (is
\* outside 0..13) is skipped: it writes no register and pushes no notification.
C23_UnresolvedSkipped ==
  (/\ call.fn = "simulateArduinoCode"
   /\ (getPinPortAndBit(call.arg[1]) = NullInfo \/ getPinPortAndBit(call.arg[2]) = NullInfo))
    => (call.result.regs = call.arg[4] /\ call.result.emitted = <<>>)

\* C24 (claimed): with a push button and no LED on the canvas a tick leaves the
\* DDR bit and the PORT bit of the LED pin as they were and pushes no
\* notification.
C24_ButtonOnlyTick ==
  [][(Ticked /\ activeComponents.led = 0 /\ activeComponents.pushbutton > 0)
       => /\ DdrBit(regs', pinConfig.ledPin) = DdrBit(regs, pinConfig.ledPin)
          /\ PortBit(regs', pinConfig.ledPin) = PortBit(regs, pinConfig.ledPin)
          /\ emitted' = <<>>]_vars

\* C25 (claimed): a pin change during a session leaves the pin it moves away
\* from configured: the old LED pin keeps its DDR bit set and its PORT bit, the
\* old button pin keeps its pull-up PORT bit set.
C25_StalePinsKept ==
  [][(op' = "handlePinChange" /\ isSimulating /\ cpuRef)
       => /\ (pinConfig'.ledPin # pinConfig.ledPin /\ DdrBit(regs, pinConfig.ledPin))
               => /\ DdrBit(regs', pinConfig.ledPin)
                  /\ PortBit(regs', pinConfig.ledPin) = PortBit(regs, pinConfig.ledPin)
          /\ (pinConfig'.buttonPin # pinConfig.buttonPin /\ PortBit(regs, pinConfig.buttonPin))
               => PortBit(regs', pinConfig.buttonPin)]_vars

\* the level LED i shows when the levels are `levels`: an LED without an entry
\* shows off
Level(levels, i) == i \in DOMAIN levels /\ levels[i]

\* C26 (claimed): all LEDs on the canvas show the same level once the updates
\* pushed so far are delivered, an LED added during a session included.
C26_OneChannel ==
  \A i \in 1..activeComponents.led : \A j \in 1..activeComponents.led :
    Level(Shown.ledStates, i) = Level(Shown.ledStates, j)

\* C27 (claimed): in a session with an LED and a push button whose button is
\* not pressed (nor was when the session started), no tick leaves the LED pin's
\* PORT bit high and no tick pushes "on".
C27_NeverPressedNeverOn ==
  [][(Ticked /\ ActiveBoth /\ ~buttonPressed /\ (impl = "jsx" => ~tick.buttonPressed))
       => /\ ~PortBit(regs', pinConfig.ledPin)
          /\ \A i \in DOMAIN emitted' : ~emitted'[i].isOn]_vars


\* C28 (claimed): every tick of an active session evaluates the rule with the
\* pin assignment, the components and the pressed state of the moment it runs:
\* in ArduinoSimulator.jsx the tick does to the registers and pushes what
\* simulateArduinoCode of the current render would, in part_002 the frame's
\* port positions are those of the current pin assignment.
C28_TickUsesCurrent ==
  [][(Ticked /\ isSimulating /\ cpuRef)
       => IF impl = "jsx"
          THEN LET now == simulateArduinoCode(
                            Closure(activeComponents, pinConfig, buttonPressed), regs)
               IN regs' = now.regs /\ emitted' = now.emitted
          ELSE portConfigRef = portConfig(pinConfig.ledPin, pinConfig.buttonPin)]_vars

\* C29 (claimed): a button press or release, the delivery of an LED-state
\* notification and the drop of a component leave an active session as it is:
\* the register bank and the scheduled loop stay, the loop's frame count goes
\* on, and no register changes but the button pin's bits on a press or release.
C29_EventsKeepSession ==
  [][(/\ op' \in {"handleButtonPress", "handleCanvasDrop", "render", "timeout"}
      /\ isSimulating /\ cpuRef /\ simulationIntervalRef)
       => /\ cpuRef' /\ simulationIntervalRef'
          /\ scheduled' = scheduled
          /\ loopCounter' = loopCounter
          /\ \/ regs' = regs
             \/ /\ op' = "handleButtonPress"
                /\ SameExcept(regs, regs', {pinConfig.buttonPin})]_vars

\* C30 (claimed): the render that delivers the updates queued by effects (the
\* LED-state update of stopSimulation among them) settles: it runs no further
\* stop/start cycle, so it queues no update and nothing is left to render.
C30_RenderSettles ==
  [][op' = "render" => pending' = <<>>]_vars

\* The program with the browser's timers: an interval callback, an animation
\* frame, a timeout callback and the pending stop effect that stay due are
\* eventually run; user events are under no obligation.
SpecLive ==
  /\ Init /\ [][Next]_vars
  /\ WF_vars(intervalCallback) /\ WF_vars(simulationLoop)
  /\ WF_vars(timeoutCallback) /\ WF_vars(stopEffect)

\* the LED pin's PORT bit is high
LedHigh == PortBit(regs, pinConfig.ledPin)

\* an active session with an LED and a push button whose button is held
Held == ActiveBoth /\ buttonPressed

\* an active session with an LED and a push button whose button is released
Let_go == ActiveBoth /\ ~buttonPressed

\* C31 (claimed): in an active session with an LED and a push button, a button
\* that is held leads to the LED pin's PORT bit being high (unless it is let go
\* or the session ends first), and a button that is released leads to the bit
\* being low (unless it is pressed or the session ends first).
C31_LedFollowsButton ==
  /\ Held ~> (LedHigh \/ ~Held)
  /\ Let_go ~> (~LedHigh \/ ~Let_go)

\* C32: a tick that follows a tick changes no register and no observed LED
\* level.  In ArduinoSimulator.jsx every interval callback evaluates the rule,
\* so the two ticks are two steps; in part_002 the state a rule-evaluating
\* frame leaves is one the next evaluation does not change: the LED pin's PORT
\* bit is already the negated button PIN bit and the listener has nothing new
\* to push.
C32_TickIdempotent ==
  [][/\ (op = "tick" /\ op' = "tick")
         => (regs' = regs /\ Shown'.ledStates = Shown.ledStates)
     /\ (op' = "frame" /\ RuleEvaluated /\ cpuRef')
         => /\ TestBit(regs'[portConfigRef'.ledPort].port, portConfigRef'.ledBit)
                 = ~TestBit(regs'[portConfigRef'.buttonPort].pin, portConfigRef'.buttonBit)
            /\ callListener(State') = State']_vars

\* a tick of ArduinoSimulator.jsx found the LED pin high, as an earlier tick of
\* the session left it, and leaves it high
C32_Witness == impl = "jsx" /\ op = "tick" /\ isSimulating /\ pre.ledHigh /\ LedHigh

\* the registers r and q agree on every bit but the DDR and PORT bits of ledPin
\* and the DDR, PORT and PIN bits of buttonPin
TickFrame(r, q, ledPin, buttonPin) ==
  \A port \in Ports : \A b \in 0..7 :
    LET here(pin) == getPinPortAndBit(pin) = [port |-> port, bit |-> b]
    IN /\ (here(ledPin) \/ here(buttonPin)
            \/ /\ TestBit(r[port].ddr, b) = TestBit(q[port].ddr, b)
               /\ TestBit(r[port].port, b) = TestBit(q[port].port, b))
       /\ (here(buttonPin) \/ TestBit(r[port].pin, b) = TestBit(q[port].pin, b))

\* C33 (claimed): a tick of an active session with an LED and a push button
\* changes no register bit but the DDR and PORT bits of the assigned LED pin and
\* the DDR, PORT and PIN bits of the assigned button pin.
C33_TickFrame ==
  [][(Ticked /\ ActiveBoth /\ cpuRef)
       => TickFrame(regs, regs', pinConfig.ledPin, pinConfig.buttonPin)]_vars

\* ------------------------------------------------------------- the pins at the ends of the ports
\* Both files with the pin changes drawn from the lowest and the highest pin of
\* port D and of port B that the dropdown offers.
EdgePins == {2, 7, 8, 13}

Next_edge ==
  \/ \E t \in ComponentTypes : handleCanvasDrop_jsx(t)
  \/ \E pressed \in BOOLEAN : handleButtonPress_jsx(pressed)
  \/ \E t \in ComponentTypes : \E p \in Offered(t) \cap EdgePins :
        handlePinChange_jsx(t, optionValue(p))
  \/ StartStopClick_jsx
  \/ stopEffect
  \/ intervalCallback
  \/ timeoutCallback
  \/ \E t \in ComponentTypes : handleCanvasDrop_p2(t)
  \/ \E pressed \in BOOLEAN : handleButtonPress_p2(pressed)
  \/ \E t \in ComponentTypes : \E p \in Offered(t) \cap EdgePins :
        handlePinChange_p2(t, optionValue(p))
  \/ handleStartSimulation
  \/ simulationLoop
  \/ render

SpecEdge == Init /\ [][Next_edge]_vars

\* bit b is 0 in the three registers of port p
BitClear(p, b) ==
  ~TestBit(regs[p].ddr, b) /\ ~TestBit(regs[p].port, b) /\ ~TestBit(regs[p].pin, b)

\* C34: the registers of port C, bits 0 and 1 of port D and bits 6 and 7 of
\* port B are zero in every reachable state, and every register holds a value
\* in 0..255.
C34_UnusedBitsZero ==
  /\ regs["C"] = ZeroPort
  /\ BitClear("D", 0) /\ BitClear("D", 1)
  /\ BitClear("B", 6) /\ BitClear("B", 7)
  /\ \A p \in Ports : regs[p].ddr \in 0..255 /\ regs[p].port \in 0..255
                        /\ regs[p].pin \in 0..255

\* a session has configured pin 13, the highest bit in use of port B, as the
\* LED's output and pin 2, the lowest of port D, as the button's pulled-up input
C34_Witness ==
  /\ isSimulating /\ pinConfig = [ledPin |-> 13, buttonPin |-> 2]
  /\ TestBit(regs["B"].ddr, 5) /\ TestBit(regs["D"].port, 2)

\* ------------------------------------------------------------- the generated program
\* The text generateArduinoCode returns, as the statements it consists of: the
\* pinMode calls of setup() and the statement of loop().
NoStatement == [stmt |-> "comment", pin |-> -1, value |-> "none", from |-> -1]

setupCode(comps, cfg) ==
  (IF comps.led > 0 THEN <<[pin |-> cfg.ledPin, mode |-> "OUTPUT"]>> ELSE <<>>)
  \o (IF comps.pushbutton > 0 THEN <<[pin |-> cfg.buttonPin, mode |-> "INPUT_PULLUP"]>>
      ELSE <<>>)

\* generateArduinoCode() of ArduinoSimulator.jsx:
\* digitalWrite(ledPin, digitalRead(buttonPin))
generateArduinoCode_jsx(comps, cfg) ==
  [setup |-> setupCode(comps, cfg),
   loop |-> IF comps.led > 0 /\ comps.pushbutton > 0
            THEN [stmt |-> "digitalWrite", pin |-> cfg.ledPin,
                  value |-> "digitalRead", from |-> cfg.buttonPin]
            ELSE IF comps.led > 0
            THEN [stmt |-> "digitalWrite", pin |-> cfg.ledPin, value |-> "HIGH", from |-> -1]
            ELSE IF comps.pushbutton > 0
            THEN [NoStatement EXCEPT !.from = cfg.buttonPin]
            ELSE NoStatement]

\* generateArduinoCode() of part_002:
\* digitalWrite(ledPin, !digitalRead(buttonPin))
generateArduinoCode_p2(comps, cfg) ==
  [setup |-> setupCode(comps, cfg),
   loop |-> IF comps.led > 0 /\ comps.pushbutton > 0
            THEN [stmt |-> "digitalWrite", pin |-> cfg.ledPin,
                  value |-> "!digitalRead", from |-> cfg.buttonPin]
            ELSE IF comps.led > 0
            THEN [stmt |-> "digitalWrite", pin |-> cfg.ledPin, value |-> "HIGH", from |-> -1]
            ELSE IF comps.pushbutton > 0
            THEN [NoStatement EXCEPT !.from = cfg.buttonPin]
            ELSE NoStatement]

\* the program the code panel of the current render shows
generateArduinoCode ==
  IF impl = "jsx" THEN generateArduinoCode_jsx(activeComponents, pinConfig)
  ELSE generateArduinoCode_p2(activeComponents, pinConfig)

\* digitalRead of a pin in INPUT_PULLUP mode wired to a push button: LOW while
\* the button is pressed
digitalRead(pressed) == ~pressed

\* the level the loop() statement writes to its pin
digitalWrite(statement, pressed) ==
  IF statement.value = "HIGH" THEN TRUE
  ELSE IF statement.value = "digitalRead" THEN digitalRead(pressed)
  ELSE IF statement.value = "!digitalRead" THEN ~digitalRead(pressed)
  ELSE FALSE

\* C35 (claimed): whenever the rule is evaluated in an active session with an
\* LED and a push button, the generated loop() names the assigned LED pin and
\* button pin, and the level the tick leaves on the LED pin is the level that
\* statement writes for the button's state.
C35_AgreesWithGenerated ==
  [][(RuleEvaluated /\ ActiveBoth /\ cpuRef')
       => /\ generateArduinoCode.loop.pin = pinConfig.ledPin
          /\ generateArduinoCode.loop.from = pinConfig.buttonPin
          /\ LedHigh' = digitalWrite(generateArduinoCode.loop, buttonPressed)]_vars

====
